---- MODULE Spec2Model ----
(***************************************************************************)
(* The example scripts of the external HTTP API (src/memory_bank and       *)
(* src/docs_external_api), each a single-threaded sequence of blocking     *)
(* HTTP calls.  One run executes one script (variable script).  A state is *)
(* a point where the script is suspended: a request is in flight, the      *)
(* script sleeps, it waits for the operator's Enter, or it has ended.  An  *)
(* action resumes the script at that point and runs it up to the next one. *)
(* The server is not part of the repository: the bodies it answers with    *)
(* are inputs, drawn from the sets below; where a claim is about server    *)
(* state, that state is modelled from the specification (server).          *)
(***************************************************************************)
EXTENDS Naturals, Sequences, FiniteSets

VARIABLES
    script,      \* the example that runs
    pc,          \* where it is suspended
    exc,         \* the unhandled exception that ended it, or None
    exitCode,    \* the process exit status once ended ("0", "1"), or None
    inflight,    \* the outstanding HTTP request, or NoRequest
    lastReq,     \* the last request that was answered
    lastReply,   \* and its answer
    out,         \* the console messages printed so far (as a set of tags)
    result, task_id, status, attempts,                 \* locals of the task scripts
    phase,       \* test_task_approval: the half of main that runs (1: by id, 2: current task)
    checks, sleeps, nInProg, timeouts,       \* history counters
    connected,   \* api_example: what test_connection returned
    started,     \* api_example: what start_new_task / send_message returned
    posted,      \* api_example: the POST /api/tasks requests sent
    modes, current_mode, profiles, current_profile, new_profile,   \* mode_and_profile
    settings,                                                      \* auto_approve
    mcps, mcp_id, details, details0,                               \* mcp_management
    tasks, logs, \* basic_task, task_management: the task list and the logs fetched
    server,      \* the server's state, as the specification describes it
    reads,       \* get_task_status: per task, the record last returned and how many
                 \* reads in a row returned it, while the task has not changed
    calls        \* get_task_status: the calls made so far

commonVars == <<script, pc, exc, exitCode, inflight, lastReq, lastReply, out>>
taskVars == <<result, task_id, status, attempts, phase>>
histVars == <<checks, sleeps, nInProg, timeouts>>
apiVars == <<connected, started, posted>>
cfgVars == <<modes, current_mode, profiles, current_profile, new_profile,
             settings, mcps, mcp_id, details, details0>>
srvVars == <<server>>
mgmtVars == <<tasks, logs>>
readVars == <<reads, calls>>
notTaskVars == <<apiVars, mgmtVars, cfgVars, srvVars, readVars>>
vars == <<commonVars, taskVars, histVars, apiVars, mgmtVars, readVars, cfgVars, srvVars>>

None == "None"
NoRequest == [method |-> "none"]
NoBody == [absent |-> TRUE]

(***************************************************************************)
(* Data of the API: what a server may answer.                              *)
(***************************************************************************)
TaskIds == {"t1", "t2"}
Statuses == {"in_progress", "needs_input", "needs_approval", "completed", "error"}
ErrorBody == [error |-> "not available"]

\* bodies of POST /tasks: a task record, a record without status, an error body
CreateBodies ==
    [id : TaskIds, status : Statuses]
        \cup [id : TaskIds]
        \cup {ErrorBody}

\* bodies of GET /tasks/.../status
StatusBodies ==
    [status : Statuses]
        \cup [status : Statuses, lastMessage : {"Hi!"}]
        \cup {ErrorBody}

\* dict.get(key): None when the key is absent
Get(body, key) == IF key \in DOMAIN body THEN body[key] ELSE None

Request(method, base, path, payload) ==
    [method |-> method, base |-> base, path |-> path, payload |-> payload]

\* an HTTP answer: the status code and the decoded JSON body
OkCodes == {200}
ErrorCodes == {404, 500}
Replies(bodies) ==
    {[code |-> c, body |-> b] : c \in OkCodes, b \in bodies \ {ErrorBody}}
        \cup {[code |-> c, body |-> b] : c \in ErrorCodes, b \in bodies \cap {ErrorBody}}

(***************************************************************************)
(* memory_bank/examples/python/test_task_creation.py                       *)
(***************************************************************************)
TC == "test_task_creation"
TC_API_BASE_URL == "http://localhost:3002/api"
TC_message == "Hello! Please create a python script that prints 'Hello World!'"

TC_create_task(message) ==
    Request("POST", TC_API_BASE_URL, <<"tasks">>,
            [message |-> message, wait_for_completion |-> TRUE])

TC_get_task_status(id) ==
    Request("GET", TC_API_BASE_URL, <<"tasks", id, "status">>, NoBody)

\* while attempts < 120
MAX_ATTEMPTS == 120
TC_LoopCond_OffByOne(a) == a <= MAX_ATTEMPTS
TC_LoopCond(a) == a < MAX_ATTEMPTS

TC_IsTerminal_NoCompleted(s) == s \in {"needs_input", "needs_approval", "error"}

\* status["status"] in ["completed", "needs_input", "needs_approval", "error"]
TC_IsTerminal(s) == s \in {"completed", "needs_input", "needs_approval", "error"}

TC_StillRunning_NotCompleted(s) == s # "completed"

\* if result["status"] == "in_progress"
TC_StillRunning(s) == s = "in_progress"

\* the head of the polling loop with attempts = a: the next status request, or
\* the loop's else branch (the timeout message) and the end of main
TC_LoopHead(id, a, printed) ==
    IF TC_LoopCond(a)
    THEN /\ inflight' = TC_get_task_status(id)
         /\ pc' = "get_task_status"
         /\ checks' = checks + 1
         /\ out' = printed
         /\ UNCHANGED <<exc, exitCode, timeouts>>
    ELSE /\ inflight' = NoRequest
         /\ pc' = "done"
         /\ exitCode' = "0"
         /\ timeouts' = timeouts + 1
         /\ out' = printed \cup {"Timeout waiting for task completion", "Test complete!"}
         /\ UNCHANGED <<exc, checks>>

\* main up to create_task's requests.post
TC_Start ==
    /\ script = TC /\ pc = "start"
    /\ inflight' = TC_create_task(TC_message)
    /\ pc' = "create_task"
    /\ out' = out \cup {"Testing task creation", "Creating task"}
    /\ UNCHANGED <<notTaskVars, script, exc, exitCode, lastReq, lastReply, taskVars, histVars>>

\* create_task returns; main decides whether to poll
TC_Created ==
    /\ script = TC /\ pc = "create_task"
    /\ \E reply \in Replies(CreateBodies) :
        /\ lastReq' = inflight /\ lastReply' = reply
        /\ result' = reply.body
        /\ IF "id" \notin DOMAIN reply.body
           THEN /\ inflight' = NoRequest /\ pc' = "done" /\ exitCode' = "0"
                /\ out' = out \cup {"Failed to create task", "Test complete!"}
                /\ UNCHANGED <<exc, task_id, attempts, checks, timeouts>>
           ELSE /\ task_id' = reply.body.id
                /\ IF "status" \notin DOMAIN reply.body
                   THEN \* result['status'] of line 64
                        /\ inflight' = NoRequest /\ pc' = "raised"
                        /\ exc' = "KeyError" /\ exitCode' = "1"
                        /\ out' = out \cup {"Task created"}
                        /\ UNCHANGED <<attempts, checks, timeouts>>
                   ELSE IF TC_StillRunning(reply.body.status)
                   THEN /\ attempts' = 0
                        /\ TC_LoopHead(reply.body.id, 0, out \cup {"Task created", "Polling for completion"})
                   ELSE /\ inflight' = NoRequest /\ pc' = "done" /\ exitCode' = "0"
                        /\ out' = out \cup {"Task created", "Test complete!"}
                        /\ UNCHANGED <<exc, attempts, checks, timeouts>>
    /\ UNCHANGED <<notTaskVars, script, status, phase, sleeps, nInProg>>

\* get_task_status returns inside the loop
TC_StatusReceived ==
    /\ script = TC /\ pc = "get_task_status"
    /\ \E reply \in Replies(StatusBodies) :
        /\ lastReq' = inflight /\ lastReply' = reply
        /\ status' = reply.body
        /\ inflight' = NoRequest
        /\ IF "status" \notin DOMAIN reply.body
           THEN \* status['status'] of line 72
                /\ pc' = "raised" /\ exc' = "KeyError" /\ exitCode' = "1"
                /\ UNCHANGED <<out, sleeps, nInProg>>
           ELSE /\ nInProg' = IF reply.body.status = "in_progress" THEN nInProg + 1 ELSE nInProg
                /\ IF TC_IsTerminal(reply.body.status)
                   THEN /\ pc' = "done" /\ exitCode' = "0"
                        /\ out' = out \cup {"Task reached state", "Test complete!"}
                        /\ UNCHANGED <<exc, sleeps>>
                   ELSE \* time.sleep(1)
                        /\ pc' = "sleep"
                        /\ sleeps' = sleeps + 1
                        /\ UNCHANGED <<exc, exitCode, out>>
    /\ UNCHANGED <<notTaskVars, script, result, task_id, attempts, phase, checks, timeouts>>

\* attempts += 1
TC_NextAttempt(a) == a + 1

\* time.sleep(1) returns; attempts += 1 and the loop condition is tested again
TC_Slept ==
    /\ script = TC /\ pc = "sleep"
    /\ attempts' = TC_NextAttempt(attempts)
    /\ TC_LoopHead(task_id, TC_NextAttempt(attempts), out)
    /\ UNCHANGED <<notTaskVars, script, lastReq, lastReply, result, task_id, status, phase,
                   sleeps, nInProg>>

TC_Next == TC_Start \/ TC_Created \/ TC_StatusReceived \/ TC_Slept

(***************************************************************************)
(* memory_bank/examples/python/test_task_approval.py                       *)
(***************************************************************************)
TA == "test_task_approval"
TA_API_BASE_URL == "http://localhost:3002/api"
TA_message == "Create a python script that prints hello world and run it"

\* bodies of POST /tasks/.../respond
RespondBodies == {[success |-> TRUE], ErrorBody}

\* create_task(message=..., mode="architect"): profile is None and left out
TA_create_task(message, mode) ==
    Request("POST", TA_API_BASE_URL, <<"tasks">>, [message |-> message, mode |-> mode])

TA_get_task_status_Current(id) ==
    Request("GET", TA_API_BASE_URL, <<"tasks", "status">>, NoBody)

\* get_task_status(task_id=None): "if task_id:" picks the addressing
TA_get_task_status(id) ==
    IF id # None
    THEN Request("GET", TA_API_BASE_URL, <<"tasks", id, "status">>, NoBody)
    ELSE Request("GET", TA_API_BASE_URL, <<"tasks", "status">>, NoBody)

TA_approve_task_Current(id) ==
    Request("POST", TA_API_BASE_URL, <<"tasks", "respond">>, [response |-> "approve"])

\* approve_task(task_id=None)
TA_approve_task(id) ==
    IF id # None
    THEN Request("POST", TA_API_BASE_URL, <<"tasks", id, "respond">>, [response |-> "approve"])
    ELSE Request("POST", TA_API_BASE_URL, <<"tasks", "respond">>, [response |-> "approve"])

\* status.get("status") == "needs_approval"
TA_NeedsApproval(s) == s = "needs_approval"

TA_IsFinished_OrInput(s) == s \in {"completed", "error", "needs_input"}

\* status.get("status") in ["completed", "error"]
TA_IsFinished(s) == s \in {"completed", "error"}

\* the argument of get_task_status and approve_task: task_id in the first
\* half of main, none in the second
TA_Arg == IF phase = 1 THEN task_id ELSE None

\* main up to the first input()
TA_Start ==
    /\ script = TA /\ pc = "start"
    /\ pc' = "input_create"
    /\ out' = out \cup {"Testing task approval with task ID"}
    /\ UNCHANGED <<notTaskVars, script, exc, exitCode, inflight, lastReq, lastReply, taskVars, histVars>>

\* the operator presses Enter; create_task posts
TA_CreateTask ==
    /\ script = TA /\ pc = "input_create"
    /\ inflight' = TA_create_task(TA_message, "architect")
    /\ pc' = "create_task"
    /\ UNCHANGED <<notTaskVars, script, exc, exitCode, lastReq, lastReply, out, taskVars, histVars>>

\* create_task returns; the first half keeps result.get("id")
TA_Created ==
    /\ script = TA /\ pc = "create_task"
    /\ \E reply \in Replies(CreateBodies) :
        /\ lastReq' = inflight /\ lastReply' = reply
        /\ result' = reply.body
        /\ task_id' = IF phase = 1 THEN Get(reply.body, "id") ELSE task_id
    /\ inflight' = NoRequest
    /\ pc' = "input_status"
    /\ out' = out \cup {"Task created"}
    /\ UNCHANGED <<notTaskVars, script, exc, exitCode, status, attempts, phase, histVars>>

\* the operator presses Enter; get_task_status gets
TA_CheckStatus ==
    /\ script = TA /\ pc = "input_status"
    /\ inflight' = TA_get_task_status(TA_Arg)
    /\ pc' = "get_task_status"
    /\ UNCHANGED <<notTaskVars, script, exc, exitCode, lastReq, lastReply, out, taskVars, histVars>>

\* get_task_status returns; the loop body decides
TA_StatusReceived ==
    /\ script = TA /\ pc = "get_task_status"
    /\ \E reply \in Replies(StatusBodies) :
        /\ lastReq' = inflight /\ lastReply' = reply
        /\ status' = reply.body
        /\ IF TA_NeedsApproval(Get(reply.body, "status"))
           THEN /\ pc' = "input_approve"
                /\ UNCHANGED <<phase, out, exitCode>>
           ELSE IF TA_IsFinished(Get(reply.body, "status"))
           THEN IF phase = 1
                THEN /\ phase' = 2
                     /\ pc' = "input_create"
                     /\ out' = out \cup {"Now testing task approval without task ID"}
                     /\ UNCHANGED exitCode
                ELSE /\ pc' = "done"
                     /\ exitCode' = "0"
                     /\ UNCHANGED <<phase, out>>
           ELSE /\ pc' = "input_status"
                /\ UNCHANGED <<phase, out, exitCode>>
    /\ inflight' = NoRequest
    /\ UNCHANGED <<notTaskVars, script, exc, result, task_id, attempts, histVars>>

TA_Approve_NoWait ==
    /\ script = TA /\ pc \in {"input_approve", "get_task_status"}
    /\ inflight' = TA_approve_task(TA_Arg)
    /\ pc' = "approve_task"
    /\ UNCHANGED <<notTaskVars, script, exc, exitCode, lastReq, lastReply, out, taskVars, histVars>>

\* the operator presses Enter; approve_task posts
TA_Approve ==
    /\ script = TA /\ pc = "input_approve"
    /\ inflight' = TA_approve_task(TA_Arg)
    /\ pc' = "approve_task"
    /\ UNCHANGED <<notTaskVars, script, exc, exitCode, lastReq, lastReply, out, taskVars, histVars>>

\* approve_task returns; back to the head of the while True loop
TA_Approved ==
    /\ script = TA /\ pc = "approve_task"
    /\ \E reply \in Replies(RespondBodies) :
        /\ lastReq' = inflight /\ lastReply' = reply
        /\ result' = reply.body
    /\ inflight' = NoRequest
    /\ pc' = "input_status"
    /\ out' = out \cup {"Approval result"}
    /\ UNCHANGED <<notTaskVars, script, exc, exitCode, task_id, status, attempts, phase, histVars>>

TA_Next ==
    \/ TA_Start \/ TA_CreateTask \/ TA_Created \/ TA_CheckStatus
    \/ TA_StatusReceived \/ TA_Approve \/ TA_Approved

(***************************************************************************)
(* memory_bank/api_example.py                                              *)
(***************************************************************************)
AE == "api_example"
\* send_message is defined and never called by main: it runs when a caller
\* of the module calls it
AE_SM == "api_example.send_message"
AE_API_BASE_URL == "http://localhost:3002"

\* what a requests call ends with: a Response, whatever its status code, or an
\* exception of requests
AE_Codes == {200, 201, 400, 404, 500}
RequestExceptions == {"ConnectionError", "TooManyRedirects"}
AE_Outcomes ==
    {[code |-> c, body |-> NoBody] : c \in AE_Codes}
        \cup {[exception |-> e] : e \in RequestExceptions}

\* response.raise_for_status(): HTTPError for a 4xx or 5xx status
RaisesForStatus(code) == code >= 400 /\ code < 600

AE_test_connection_ChecksStatus(outcome) ==
    IF "exception" \notin DOMAIN outcome /\ ~RaisesForStatus(outcome.code)
    THEN [ret |-> "True", printed |-> {}]
    ELSE [ret |-> "False", printed |-> {"Error: Could not connect"}]

\* test_connection(): True for any response, False for any exception
AE_test_connection(outcome) ==
    IF "exception" \notin DOMAIN outcome
    THEN [ret |-> "True", printed |-> {}]
    ELSE IF outcome.exception = "ConnectionError"
    THEN [ret |-> "False", printed |-> {"Error: Could not connect"}]
    ELSE [ret |-> "False", printed |-> {"Unexpected error testing connection"}]

\* the try block of start_new_task and send_message: the exception the except
\* clause receives (a RequestException: those of requests.post, HTTPError of
\* raise_for_status), or None
AE_PostFailure(outcome) ==
    IF "exception" \in DOMAIN outcome THEN outcome.exception
    ELSE IF RaisesForStatus(outcome.code) THEN "HTTPError"
    ELSE None

AE_start_new_task_Reraises(outcome) ==
    IF AE_PostFailure(outcome) = None
    THEN [ret |-> "True", exc |-> None, printed |-> {"Successfully started new task"}]
    ELSE [ret |-> None, exc |-> AE_PostFailure(outcome), printed |-> {}]

\* start_new_task(message): what it returns and prints
AE_start_new_task(outcome) ==
    IF AE_PostFailure(outcome) = None
    THEN [ret |-> "True", exc |-> None, printed |-> {"Successfully started new task"}]
    ELSE [ret |-> "False", exc |-> None, printed |-> {"Error starting task"}]

\* send_message(message): what it returns and prints
AE_send_message(outcome) ==
    IF AE_PostFailure(outcome) = None
    THEN [ret |-> "True", exc |-> None, printed |-> {"Successfully sent message"}]
    ELSE [ret |-> "False", exc |-> None, printed |-> {"Error sending message"}]

AE_ProbeRequest == Request("GET", AE_API_BASE_URL, <<"api", "instructions">>, NoBody)
AE_TaskRequest(message) ==
    Request("POST", AE_API_BASE_URL, <<"api", "tasks">>, [message |-> message])
AE_MessageRequest(message) ==
    Request("POST", AE_API_BASE_URL, <<"api", "messages">>, [message |-> message])

\* main up to the requests.get of test_connection
AE_Start ==
    /\ script = AE /\ pc = "start"
    /\ inflight' = AE_ProbeRequest
    /\ pc' = "test_connection"
    /\ out' = out \cup {"Testing connection"}
    /\ UNCHANGED <<script, exc, exitCode, lastReq, lastReply, taskVars, histVars,
                   apiVars, mgmtVars, readVars, cfgVars, srvVars>>

\* test_connection returns: sys.exit(1), or on to start_new_task("Hello!")
AE_Probed ==
    /\ script = AE /\ pc = "test_connection"
    /\ \E o \in AE_Outcomes :
        LET r == AE_test_connection(o) IN
        /\ lastReq' = inflight /\ lastReply' = o
        /\ connected' = r.ret
        /\ IF r.ret = "False"
           THEN /\ inflight' = NoRequest
                /\ pc' = "done" /\ exitCode' = "1"
                /\ out' = out \cup r.printed
                /\ UNCHANGED posted
           ELSE /\ inflight' = AE_TaskRequest("Hello!")
                /\ posted' = posted + 1
                /\ pc' = "start_new_task"
                /\ out' = out \cup r.printed \cup {"Starting new task"}
                /\ UNCHANGED exitCode
    /\ UNCHANGED <<script, exc, started, taskVars, histVars, mgmtVars, readVars, cfgVars, srvVars>>

\* start_new_task returns and main ends
AE_Started ==
    /\ script = AE /\ pc = "start_new_task"
    /\ \E o \in AE_Outcomes :
        LET r == AE_start_new_task(o) IN
        /\ lastReq' = inflight /\ lastReply' = o
        /\ started' = r.ret
        /\ exc' = r.exc
        /\ IF r.exc # None
           THEN /\ pc' = "raised" /\ exitCode' = "1"
                /\ out' = out \cup r.printed
           ELSE /\ pc' = "done" /\ exitCode' = "0"
                /\ out' = out \cup r.printed
                        \cup (IF r.ret = "True" THEN {"Task started successfully!"} ELSE {})
    /\ inflight' = NoRequest
    /\ UNCHANGED <<script, connected, posted, taskVars, histVars, mgmtVars, readVars, cfgVars, srvVars>>

\* a caller calls send_message(message)
AE_SendMessage ==
    /\ script = AE_SM /\ pc = "start"
    /\ inflight' = AE_MessageRequest("Hello!")
    /\ pc' = "send_message"
    /\ UNCHANGED <<script, exc, exitCode, lastReq, lastReply, out, taskVars, histVars,
                   apiVars, mgmtVars, readVars, cfgVars, srvVars>>

\* send_message returns to its caller (pc "returned") or raises
AE_MessageSent ==
    /\ script = AE_SM /\ pc = "send_message"
    /\ \E o \in AE_Outcomes :
        LET r == AE_send_message(o) IN
        /\ lastReq' = inflight /\ lastReply' = o
        /\ started' = r.ret
        /\ exc' = r.exc
        /\ pc' = IF r.exc # None THEN "raised" ELSE "returned"
        /\ out' = out \cup r.printed
    /\ inflight' = NoRequest
    /\ UNCHANGED <<script, exitCode, connected, posted, taskVars, histVars, mgmtVars, readVars, cfgVars, srvVars>>

AE_Next == AE_Start \/ AE_Probed \/ AE_Started \/ AE_SendMessage \/ AE_MessageSent

(***************************************************************************)
(* The server behind the configuration examples.  It is not part of the    *)
(* repository; its state and its answers follow the specification (modes,  *)
(* profiles: section 4.2 and the testable properties of section 8).        *)
(***************************************************************************)
MaxModes == 2
MaxProfiles == 3
ModeSlugs == {"architect", "code", "ask"}
ProfileNames == {"default", "work"}

SeqsUpTo(S, n) == UNION {[1..k -> S] : k \in 1..n}
Distinct(q) == \A i, j \in 1..Len(q) : i # j => q[i] # q[j]
Range(q) == {q[i] : i \in 1..Len(q)}

\* the mode lists (no slug twice) and profile lists a server may hold
ModeLists == {[i \in 1..Len(q) |-> [slug |-> q[i]]] :
                 q \in {x \in SeqsUpTo(ModeSlugs, MaxModes) : Distinct(x)}}
ProfileLists == {[i \in 1..Len(q) |-> [name |-> q[i]]] : q \in SeqsUpTo(ProfileNames, MaxProfiles)}

ModeServers ==
    {[modes |-> ml, mode |-> m, profiles |-> pl, profile |-> pr] :
        ml \in ModeLists, m \in ModeSlugs, pl \in ProfileLists, pr \in ProfileNames}

\* exactly one mode and one profile is current, each an entry of its list
ModeServerOk(srv) ==
    /\ [slug |-> srv.mode] \in Range(srv.modes)
    /\ [name |-> srv.profile] \in Range(srv.profiles)

OkReply(body) == [code |-> 200, body |-> body]
ErrorReply == [code |-> 404, body |-> ErrorBody]

\* POST /modes/switch {mode}: adopted as current when listed, else an error
SrvSwitchMode(srv, slug) ==
    IF [slug |-> slug] \in Range(srv.modes)
    THEN [server |-> [srv EXCEPT !.mode = slug], reply |-> OkReply([mode |-> slug])]
    ELSE [server |-> srv, reply |-> ErrorReply]

\* POST /profiles/switch {name}
SrvSwitchProfile(srv, name) ==
    IF [name |-> name] \in Range(srv.profiles)
    THEN [server |-> [srv EXCEPT !.profile = name], reply |-> OkReply([name |-> name])]
    ELSE [server |-> srv, reply |-> ErrorReply]

(***************************************************************************)
(* docs_external_api/examples/python/mode_and_profile.py                   *)
(***************************************************************************)
MP == "mode_and_profile"
\* switch_mode and switch_profile called by a caller of the module, with any name
MP_SM == "mode_and_profile.switch_mode"
MP_SP == "mode_and_profile.switch_profile"
MP_API_BASE_URL == "http://localhost:3002/api"

MP_Get(path) == Request("GET", MP_API_BASE_URL, path, NoBody)
MP_switch_mode_request(mode_slug) ==
    Request("POST", MP_API_BASE_URL, <<"modes", "switch">>, [mode |-> mode_slug])
MP_switch_profile_request(profile_name) ==
    Request("POST", MP_API_BASE_URL, <<"profiles", "switch">>, [name |-> profile_name])

ResponseJson_SwallowsError(reply) ==
    IF reply.code >= 400 THEN [success |-> TRUE] ELSE reply.body

\* return response.json(): the decoded body, whatever the status code
ResponseJson(reply) == reply.body

\* the names p["name"] of the profiles that differ from the current one, in order
MP_OtherNames(list, current) ==
    SelectSeq([i \in 1..Len(list) |-> list[i].name], LAMBDA n : n # current.name)

\* len(profiles) > 1
MP_HasSeveral(list) == Len(list) > 1

\* a suspended script resumes: a request goes out, or the next input() waits
MP_Step(from, to, req, printed) ==
    /\ script = MP /\ pc = from
    /\ pc' = to
    /\ inflight' = req
    /\ out' = out \cup printed
    /\ UNCHANGED <<script, exc, exitCode, lastReq, lastReply, taskVars, histVars,
                   apiVars, mgmtVars, readVars, cfgVars, srvVars>>

MP_Start == MP_Step("start", "list_modes", MP_Get(<<"modes">>), {"Listing available modes"})

MP_ModesListed ==
    /\ script = MP /\ pc = "list_modes"
    /\ lastReq' = inflight /\ lastReply' = OkReply(server.modes)
    /\ modes' = ResponseJson(OkReply(server.modes))
    /\ inflight' = NoRequest /\ pc' = "input_current_mode"
    /\ out' = out \cup {"Available modes"}
    /\ UNCHANGED <<script, exc, exitCode, taskVars, histVars, apiVars, mgmtVars, readVars, srvVars,
                   current_mode, profiles, current_profile, new_profile,
                   settings, mcps, mcp_id, details, details0>>

MP_GetCurrentMode ==
    MP_Step("input_current_mode", "get_current_mode", MP_Get(<<"modes", "current">>), {})

MP_CurrentModeReceived ==
    /\ script = MP /\ pc = "get_current_mode"
    /\ lastReq' = inflight /\ lastReply' = OkReply([slug |-> server.mode])
    /\ current_mode' = ResponseJson(OkReply([slug |-> server.mode]))
    /\ inflight' = NoRequest /\ pc' = "input_switch_mode"
    /\ out' = out \cup {"Current mode"}
    /\ UNCHANGED <<script, exc, exitCode, taskVars, histVars, apiVars, mgmtVars, readVars, srvVars,
                   modes, profiles, current_profile, new_profile,
                   settings, mcps, mcp_id, details, details0>>

\* switch_mode("architect")
MP_SwitchMode ==
    MP_Step("input_switch_mode", "switch_mode", MP_switch_mode_request("architect"),
            {"Switching to architect mode"})

\* a caller calls switch_mode(mode_slug)
MP_CallSwitchMode ==
    /\ script = MP_SM /\ pc = "start"
    /\ \E slug \in ModeSlugs : inflight' = MP_switch_mode_request(slug)
    /\ pc' = "switch_mode"
    /\ UNCHANGED <<script, exc, exitCode, lastReq, lastReply, out, taskVars, histVars,
                   apiVars, mgmtVars, readVars, cfgVars, srvVars>>

\* switch_mode returns what the server answered
MP_ModeSwitched ==
    /\ script \in {MP, MP_SM} /\ pc = "switch_mode"
    /\ LET r == SrvSwitchMode(server, inflight.payload.mode) IN
        /\ server' = r.server
        /\ lastReq' = inflight /\ lastReply' = r.reply
        /\ result' = ResponseJson(r.reply)
    /\ inflight' = NoRequest
    /\ pc' = IF script = MP THEN "input_list_profiles" ELSE "returned"
    /\ out' = IF script = MP THEN out \cup {"Switch result"} ELSE out
    /\ UNCHANGED <<script, exc, exitCode, task_id, status, attempts, phase, histVars,
                   apiVars, mgmtVars, readVars, cfgVars>>

MP_ListProfiles ==
    MP_Step("input_list_profiles", "list_profiles", MP_Get(<<"profiles">>),
            {"Listing available profiles"})

MP_ProfilesListed ==
    /\ script = MP /\ pc = "list_profiles"
    /\ lastReq' = inflight /\ lastReply' = OkReply(server.profiles)
    /\ profiles' = ResponseJson(OkReply(server.profiles))
    /\ inflight' = NoRequest /\ pc' = "input_current_profile"
    /\ out' = out \cup {"Available profiles"}
    /\ UNCHANGED <<script, exc, exitCode, taskVars, histVars, apiVars, mgmtVars, readVars, srvVars,
                   modes, current_mode, current_profile, new_profile,
                   settings, mcps, mcp_id, details, details0>>

MP_GetCurrentProfile ==
    MP_Step("input_current_profile", "get_current_profile",
            MP_Get(<<"profiles", "current">>), {"Getting current profile"})

\* get_current_profile returns; with one profile or none main ends here
MP_CurrentProfileReceived ==
    /\ script = MP /\ pc = "get_current_profile"
    /\ lastReq' = inflight /\ lastReply' = OkReply([name |-> server.profile])
    /\ current_profile' = ResponseJson(OkReply([name |-> server.profile]))
    /\ inflight' = NoRequest
    /\ out' = out \cup {"Current profile"}
    /\ IF MP_HasSeveral(profiles)
       THEN pc' = "input_switch_profile" /\ UNCHANGED exitCode
       ELSE pc' = "done" /\ exitCode' = "0"
    /\ UNCHANGED <<script, exc, taskVars, histVars, apiVars, mgmtVars, readVars, srvVars,
                   modes, current_mode, profiles, new_profile,
                   settings, mcps, mcp_id, details, details0>>

\* new_profile = next(...): the first other name, or StopIteration
MP_SwitchProfile ==
    /\ script = MP /\ pc = "input_switch_profile"
    /\ LET others == MP_OtherNames(profiles, current_profile) IN
        IF others = <<>>
        THEN /\ pc' = "raised" /\ exc' = "StopIteration" /\ exitCode' = "1"
             /\ UNCHANGED <<inflight, new_profile, out>>
        ELSE /\ new_profile' = Head(others)
             /\ inflight' = MP_switch_profile_request(Head(others))
             /\ pc' = "switch_profile"
             /\ out' = out \cup {"Switching to profile"}
             /\ UNCHANGED <<exc, exitCode>>
    /\ UNCHANGED <<script, lastReq, lastReply, taskVars, histVars, apiVars, mgmtVars, readVars, srvVars,
                   modes, current_mode, profiles, current_profile,
                   settings, mcps, mcp_id, details, details0>>

\* a caller calls switch_profile(profile_name)
MP_CallSwitchProfile ==
    /\ script = MP_SP /\ pc = "start"
    /\ \E name \in ProfileNames : inflight' = MP_switch_profile_request(name)
    /\ pc' = "switch_profile"
    /\ UNCHANGED <<script, exc, exitCode, lastReq, lastReply, out, taskVars, histVars,
                   apiVars, mgmtVars, readVars, cfgVars, srvVars>>

\* switch_profile returns what the server answered; main ends
MP_ProfileSwitched ==
    /\ script \in {MP, MP_SP} /\ pc = "switch_profile"
    /\ LET r == SrvSwitchProfile(server, inflight.payload.name) IN
        /\ server' = r.server
        /\ lastReq' = inflight /\ lastReply' = r.reply
        /\ result' = ResponseJson(r.reply)
    /\ inflight' = NoRequest
    /\ IF script = MP
       THEN pc' = "done" /\ exitCode' = "0" /\ out' = out \cup {"Switch result"}
       ELSE pc' = "returned" /\ UNCHANGED <<exitCode, out>>
    /\ UNCHANGED <<script, exc, task_id, status, attempts, phase, histVars,
                   apiVars, mgmtVars, readVars, cfgVars>>

MP_Next ==
    \/ MP_Start \/ MP_ModesListed \/ MP_GetCurrentMode \/ MP_CurrentModeReceived
    \/ MP_SwitchMode \/ MP_CallSwitchMode \/ MP_ModeSwitched
    \/ MP_ListProfiles \/ MP_ProfilesListed \/ MP_GetCurrentProfile
    \/ MP_CurrentProfileReceived \/ MP_SwitchProfile \/ MP_CallSwitchProfile
    \/ MP_ProfileSwitched

(***************************************************************************)
(* The server's auto-approve settings (specification, section 4.3): one    *)
(* record of boolean flags; an update is merged into it.                   *)
(***************************************************************************)
Flags == {"autoApprovalEnabled", "alwaysAllowReadOnly", "alwaysAllowWrite",
          "alwaysAllowExecute", "alwaysAllowBrowser", "alwaysAllowMcp",
          "alwaysApproveResubmit"}
FlagRecords == [Flags -> BOOLEAN]

\* the most flags a partial update of a direct call carries
MaxUpdate == 2
PartialUpdates ==
    UNION {[d -> BOOLEAN] : d \in {x \in SUBSET Flags : Cardinality(x) <= MaxUpdate}}

\* POST /auto-approve: the flags sent replace the stored ones, the others stay
SrvUpdateFlags(flags, update) ==
    [k \in Flags |-> IF k \in DOMAIN update THEN update[k] ELSE flags[k]]

\* POST /auto-approve/enabled {enabled}: the master switch alone
SrvSetEnabled(flags, enabled) == [flags EXCEPT !["autoApprovalEnabled"] = enabled]

(***************************************************************************)
(* docs_external_api/examples/python/auto_approve.py                       *)
(***************************************************************************)
AA == "auto_approve"
\* the two setters called by a caller of the module, with any argument
AA_UP == "auto_approve.update_auto_approve_settings"
AA_SE == "auto_approve.set_auto_approve_enabled"
AA_API_BASE_URL == "http://localhost:3002/api"

AA_new_settings ==
    [autoApprovalEnabled |-> TRUE, alwaysAllowReadOnly |-> TRUE,
     alwaysAllowWrite |-> FALSE, alwaysAllowExecute |-> FALSE,
     alwaysAllowBrowser |-> TRUE, alwaysAllowMcp |-> FALSE,
     alwaysApproveResubmit |-> TRUE]

AA_get_request == Request("GET", AA_API_BASE_URL, <<"auto-approve">>, NoBody)
AA_update_request(new) == Request("POST", AA_API_BASE_URL, <<"auto-approve">>, new)
AA_enabled_request(enabled) ==
    Request("POST", AA_API_BASE_URL, <<"auto-approve", "enabled">>, [enabled |-> enabled])

AA_update_result_EchoesRequest(sent, reply) == sent

\* update_auto_approve_settings(settings): return response.json()
AA_update_result(sent, reply) == ResponseJson(reply)

\* a suspended main resumes: a request goes out
AA_Step(from, to, req, printed) ==
    /\ script = AA /\ pc = from
    /\ pc' = to
    /\ inflight' = req
    /\ out' = out \cup printed
    /\ UNCHANGED <<script, exc, exitCode, lastReq, lastReply, taskVars, histVars,
                   apiVars, mgmtVars, readVars, cfgVars, srvVars>>

AA_Start == AA_Step("start", "get_settings_1", AA_get_request, {"Getting current settings"})
AA_Update == AA_Step("input_update", "update_settings", AA_update_request(AA_new_settings),
                     {"Updating auto-approve settings"})
AA_Verify == AA_Step("input_verify", "get_settings_2", AA_get_request, {"Verifying updated settings"})
AA_Disable == AA_Step("input_disable", "set_enabled", AA_enabled_request(FALSE),
                      {"Disabling auto-approve"})
AA_FinalCheck == AA_Step("input_final", "get_settings_3", AA_get_request, {"Final settings check"})

\* get_auto_approve_settings returns (three times in main)
AA_SettingsReceived ==
    /\ script = AA /\ pc \in {"get_settings_1", "get_settings_2", "get_settings_3"}
    /\ lastReq' = inflight /\ lastReply' = OkReply(server.flags)
    /\ settings' = ResponseJson(OkReply(server.flags))
    /\ inflight' = NoRequest
    /\ out' = out \cup {"Settings"}
    /\ IF pc = "get_settings_1" THEN pc' = "input_update" /\ UNCHANGED exitCode
       ELSE IF pc = "get_settings_2" THEN pc' = "input_disable" /\ UNCHANGED exitCode
       ELSE pc' = "done" /\ exitCode' = "0"
    /\ UNCHANGED <<script, exc, taskVars, histVars, apiVars, mgmtVars, readVars, srvVars,
                   modes, current_mode, profiles, current_profile, new_profile,
                   mcps, mcp_id, details, details0>>

\* a caller calls update_auto_approve_settings(settings)
AA_CallUpdate ==
    /\ script = AA_UP /\ pc = "start"
    /\ \E u \in PartialUpdates : inflight' = AA_update_request(u)
    /\ pc' = "update_settings"
    /\ UNCHANGED <<script, exc, exitCode, lastReq, lastReply, out, taskVars, histVars,
                   apiVars, mgmtVars, readVars, cfgVars, srvVars>>

\* update_auto_approve_settings returns the record the server produced
AA_Updated ==
    /\ script \in {AA, AA_UP} /\ pc = "update_settings"
    /\ LET merged == SrvUpdateFlags(server.flags, inflight.payload) IN
        /\ server' = [server EXCEPT !.flags = merged]
        /\ lastReq' = inflight /\ lastReply' = OkReply(merged)
        /\ result' = AA_update_result(inflight.payload, OkReply(merged))
    /\ inflight' = NoRequest
    /\ pc' = IF script = AA THEN "input_verify" ELSE "returned"
    /\ out' = IF script = AA THEN out \cup {"Update result"} ELSE out
    /\ UNCHANGED <<script, exc, exitCode, task_id, status, attempts, phase, histVars,
                   apiVars, mgmtVars, readVars, cfgVars>>

\* a caller calls set_auto_approve_enabled(enabled)
AA_CallSetEnabled ==
    /\ script = AA_SE /\ pc = "start"
    /\ \E b \in BOOLEAN : inflight' = AA_enabled_request(b)
    /\ pc' = "set_enabled"
    /\ UNCHANGED <<script, exc, exitCode, lastReq, lastReply, out, taskVars, histVars,
                   apiVars, mgmtVars, readVars, cfgVars, srvVars>>

\* set_auto_approve_enabled returns
AA_EnabledSet ==
    /\ script \in {AA, AA_SE} /\ pc = "set_enabled"
    /\ LET toggled == SrvSetEnabled(server.flags, inflight.payload.enabled) IN
        /\ server' = [server EXCEPT !.flags = toggled]
        /\ lastReq' = inflight /\ lastReply' = OkReply(toggled)
        /\ result' = ResponseJson(OkReply(toggled))
    /\ inflight' = NoRequest
    /\ pc' = IF script = AA THEN "input_final" ELSE "returned"
    /\ out' = IF script = AA THEN out \cup {"Toggle result"} ELSE out
    /\ UNCHANGED <<script, exc, exitCode, task_id, status, attempts, phase, histVars,
                   apiVars, mgmtVars, readVars, cfgVars>>

AA_Next ==
    \/ AA_Start \/ AA_Update \/ AA_Verify \/ AA_Disable \/ AA_FinalCheck
    \/ AA_SettingsReceived \/ AA_CallUpdate \/ AA_Updated
    \/ AA_CallSetEnabled \/ AA_EnabledSet

(***************************************************************************)
(* The server's MCPs (specification, section 4.4): a list of records with  *)
(* an id and an enabled flag; setting the status of an id changes its flag. *)
(***************************************************************************)
MaxMcps == 2
McpIds == {"m1", "m2", "m3"}
McpLists ==
    {<<>>} \cup
    UNION {{[i \in 1..Len(q) |-> [id |-> q[i], enabled |-> en[i]]] :
               en \in [1..Len(q) -> BOOLEAN]} :
           q \in {x \in SeqsUpTo(McpIds, MaxMcps) : Distinct(x)}}

\* GET /mcps/{id}
SrvMcpDetails(list, id) ==
    IF \E i \in 1..Len(list) : list[i].id = id
    THEN OkReply(list[CHOOSE i \in 1..Len(list) : list[i].id = id])
    ELSE ErrorReply

\* POST /mcps/{id}/status {enabled}
SrvSetMcpStatus(list, id, enabled) ==
    [i \in 1..Len(list) |-> IF list[i].id = id THEN [list[i] EXCEPT !.enabled = enabled]
                                               ELSE list[i]]

(***************************************************************************)
(* docs_external_api/examples/python/mcp_management.py (with input()       *)
(* between the steps) and memory_bank/examples/python/mcp_management.py    *)
(* (the same calls, no input())                                            *)
(***************************************************************************)
MCP_DOCS == "docs_external_api/mcp_management"
MCP_MB == "memory_bank/mcp_management"
MCP_API_BASE_URL == IF script = MCP_DOCS THEN "http://localhost:3002/api"
                                          ELSE "http://localhost:3000/api"

MCP_list_request == Request("GET", MCP_API_BASE_URL, <<"mcps">>, NoBody)
MCP_details_request(id) == Request("GET", MCP_API_BASE_URL, <<"mcps", id>>, NoBody)
MCP_status_request(id, enabled) ==
    Request("POST", MCP_API_BASE_URL, <<"mcps", id, "status">>, [enabled |-> enabled])

MCP_FirstId_Last(list) == list[Len(list)].id

\* mcp_id = mcps[0]["id"]
MCP_FirstId(list) == list[1].id

\* the next call of main: at once in memory_bank's script, after input() in
\* the documentation's
MCP_Then(prompt, to, req) ==
    IF script = MCP_DOCS
    THEN pc' = prompt /\ inflight' = NoRequest
    ELSE pc' = to /\ inflight' = req

\* the operator presses Enter (documentation's script)
MCP_Enter(prompt, to, req) ==
    /\ script = MCP_DOCS /\ pc = prompt
    /\ pc' = to
    /\ inflight' = req
    /\ UNCHANGED <<script, exc, exitCode, lastReq, lastReply, out, taskVars, histVars,
                   apiVars, mgmtVars, readVars, srvVars, modes, current_mode, profiles, current_profile,
                   new_profile, settings, mcps, details, details0>>

MCP_Start ==
    /\ script \in {MCP_DOCS, MCP_MB} /\ pc = "start"
    /\ inflight' = MCP_list_request
    /\ pc' = "list_mcps"
    /\ out' = out \cup {"Listing available MCPs"}
    /\ UNCHANGED <<script, exc, exitCode, lastReq, lastReply, taskVars, histVars,
                   apiVars, mgmtVars, readVars, cfgVars, srvVars>>

\* list_mcps returns; "if mcps:"
MCP_Listed ==
    /\ script \in {MCP_DOCS, MCP_MB} /\ pc = "list_mcps"
    /\ lastReq' = inflight /\ lastReply' = OkReply(server.mcps)
    /\ mcps' = ResponseJson(OkReply(server.mcps))
    /\ out' = out \cup {"Available MCPs"}
    /\ IF server.mcps # <<>>
       THEN /\ MCP_Then("input_details", "get_details_1",
                        MCP_details_request(MCP_FirstId(server.mcps)))
            /\ mcp_id' = IF script = MCP_DOCS THEN mcp_id ELSE MCP_FirstId(server.mcps)
            /\ UNCHANGED exitCode
       ELSE /\ pc' = "done" /\ exitCode' = "0" /\ inflight' = NoRequest
            /\ UNCHANGED mcp_id
    /\ UNCHANGED <<script, exc, taskVars, histVars, apiVars, mgmtVars, readVars, srvVars,
                   modes, current_mode, profiles, current_profile, new_profile,
                   settings, details, details0>>

MCP_EnterDetails ==
    /\ MCP_Enter("input_details", "get_details_1", MCP_details_request(MCP_FirstId(mcps)))
    /\ mcp_id' = MCP_FirstId(mcps)

\* get_mcp_details returns for the first time; next set_mcp_status(mcp_id, False)
MCP_DetailsReceived ==
    /\ script \in {MCP_DOCS, MCP_MB} /\ pc = "get_details_1"
    /\ LET reply == SrvMcpDetails(server.mcps, inflight.path[2]) IN
        /\ lastReq' = inflight /\ lastReply' = reply
        /\ details' = ResponseJson(reply)
        /\ details0' = ResponseJson(reply)
    /\ MCP_Then("input_disable", "disable", MCP_status_request(mcp_id, FALSE))
    /\ out' = out \cup {"MCP details"}
    /\ UNCHANGED <<script, exc, exitCode, taskVars, histVars, apiVars, mgmtVars, readVars, srvVars,
                   modes, current_mode, profiles, current_profile, new_profile,
                   settings, mcps, mcp_id>>

MCP_EnterDisable ==
    /\ MCP_Enter("input_disable", "disable", MCP_status_request(mcp_id, FALSE))
    /\ UNCHANGED mcp_id

\* set_mcp_status returns (disable, then enable)
MCP_StatusSet ==
    /\ script \in {MCP_DOCS, MCP_MB} /\ pc \in {"disable", "enable"}
    /\ LET list == SrvSetMcpStatus(server.mcps, inflight.path[2], inflight.payload.enabled)
           reply == SrvMcpDetails(list, inflight.path[2]) IN
        /\ server' = [server EXCEPT !.mcps = list]
        /\ lastReq' = inflight /\ lastReply' = reply
        /\ result' = ResponseJson(reply)
    /\ IF pc = "disable"
       THEN MCP_Then("input_enable", "enable", MCP_status_request(mcp_id, TRUE))
       ELSE MCP_Then("input_final", "get_details_2", MCP_details_request(mcp_id))
    /\ out' = out \cup {IF pc = "disable" THEN "Disable result" ELSE "Enable result"}
    /\ UNCHANGED <<script, exc, exitCode, task_id, status, attempts, phase, histVars,
                   apiVars, mgmtVars, readVars, cfgVars>>

MCP_EnterEnable ==
    /\ MCP_Enter("input_enable", "enable", MCP_status_request(mcp_id, TRUE))
    /\ UNCHANGED mcp_id

MCP_EnterFinal ==
    /\ MCP_Enter("input_final", "get_details_2", MCP_details_request(mcp_id))
    /\ UNCHANGED mcp_id

\* get_mcp_details returns for the second time; main ends
MCP_FinalReceived ==
    /\ script \in {MCP_DOCS, MCP_MB} /\ pc = "get_details_2"
    /\ LET reply == SrvMcpDetails(server.mcps, inflight.path[2]) IN
        /\ lastReq' = inflight /\ lastReply' = reply
        /\ details' = ResponseJson(reply)
    /\ inflight' = NoRequest
    /\ pc' = "done" /\ exitCode' = "0"
    /\ out' = out \cup {"Final status"}
    /\ UNCHANGED <<script, exc, taskVars, histVars, apiVars, mgmtVars, readVars, srvVars,
                   modes, current_mode, profiles, current_profile, new_profile,
                   settings, mcps, mcp_id, details0>>

MCP_Next ==
    \/ MCP_Start \/ MCP_Listed \/ MCP_EnterDetails \/ MCP_DetailsReceived
    \/ MCP_EnterDisable \/ MCP_StatusSet \/ MCP_EnterEnable \/ MCP_EnterFinal
    \/ MCP_FinalReceived

(***************************************************************************)
(* memory_bank/examples/python/basic_task.py and task_management.py        *)
(***************************************************************************)
BT == "basic_task"
TM == "task_management"
BT_API_BASE_URL == "http://localhost:3002/api"

\* bodies of POST /messages, of GET /tasks/.../logs, and the lists of GET /tasks
MessageBodies == {[success |-> TRUE], ErrorBody}
LogBodies == {[messages |-> <<>>], [messages |-> <<"Hello!", "Hi!">>], ErrorBody}
MaxTasks == 2
TaskLists ==
    {<<>>} \cup {[i \in 1..Len(q) |-> [id |-> q[i]]] :
                    q \in {x \in UNION {[1..k -> TaskIds] : k \in 1..MaxTasks} :
                              \A i, j \in 1..Len(x) : i # j => x[i] # x[j]}}

\* create_task(message=..., mode="architect", wait_for_completion=True)
BT_create_task(message, mode, wait_for_completion) ==
    Request("POST", BT_API_BASE_URL, <<"tasks">>,
            [message |-> message, mode |-> mode, wait_for_completion |-> wait_for_completion])
BT_send_message(message) ==
    Request("POST", BT_API_BASE_URL, <<"messages">>, [message |-> message])
BT_get_task_status == Request("GET", BT_API_BASE_URL, <<"tasks", "status">>, NoBody)
BT_get_task_logs == Request("GET", BT_API_BASE_URL, <<"tasks", "logs">>, NoBody)

\* list_tasks(limit=5)
TM_list_tasks(limit) == Request("GET", BT_API_BASE_URL, <<"tasks">>, [limit |-> limit])
TM_get_task_status_by_id(id) ==
    Request("GET", BT_API_BASE_URL, <<"tasks", id, "status">>, NoBody)
TM_get_task_logs_by_id(id) ==
    Request("GET", BT_API_BASE_URL, <<"tasks", id, "logs">>, NoBody)
TM_send_message_to_task(id, message) ==
    Request("POST", BT_API_BASE_URL, <<"messages", id>>, [message |-> message])

\* the request main sends when it resumes at pc
BT_NextRequest ==
    IF script = BT
    THEN CASE pc = "start" -> BT_create_task("Hello! Let's start a new task.", "architect", TRUE)
           [] pc = "input_send" ->
                  BT_send_message("Can you help me with a Python script to print out a poem about a cat?")
           [] pc = "input_status" -> BT_get_task_status
           [] pc = "input_logs" -> BT_get_task_logs
    ELSE CASE pc = "start" -> TM_list_tasks(5)
           [] pc = "input_status" -> TM_get_task_status_by_id(task_id)
           [] pc = "input_logs" -> TM_get_task_logs_by_id(task_id)
           [] pc = "input_send" ->
                  TM_send_message_to_task(task_id, "This is a message to a specific task!")

\* where main waits for that request's answer
BT_WaitAt ==
    CASE pc = "start" -> IF script = BT THEN "create_task" ELSE "list_tasks"
      [] pc = "input_send" -> "send_message"
      [] pc = "input_status" -> "get_task_status"
      [] pc = "input_logs" -> "get_task_logs"

\* main starts, or the operator presses Enter: the next request goes out
BT_Send ==
    /\ script \in {BT, TM}
    /\ pc \in {"start", "input_send", "input_status", "input_logs"}
    /\ inflight' = BT_NextRequest
    /\ pc' = BT_WaitAt
    /\ UNCHANGED <<script, exc, exitCode, lastReq, lastReply, out, taskVars, histVars,
                   apiVars, mgmtVars, readVars, cfgVars, srvVars>>

\* basic_task: create_task returns
BT_Created ==
    /\ script = BT /\ pc = "create_task"
    /\ \E reply \in Replies(CreateBodies) :
        /\ lastReq' = inflight /\ lastReply' = reply
        /\ result' = reply.body
    /\ inflight' = NoRequest /\ pc' = "input_send"
    /\ out' = out \cup {"Task created"}
    /\ UNCHANGED <<script, exc, exitCode, task_id, status, attempts, phase, histVars,
                   apiVars, mgmtVars, readVars, cfgVars, srvVars>>

\* task_management: list_tasks returns; "if tasks:" and task_id = tasks[0]["id"]
TM_Listed ==
    /\ script = TM /\ pc = "list_tasks"
    /\ \E list \in TaskLists :
        /\ lastReq' = inflight /\ lastReply' = OkReply(list)
        /\ tasks' = list
        /\ IF list # <<>>
           THEN task_id' = list[1].id /\ pc' = "input_status" /\ UNCHANGED exitCode
           ELSE pc' = "done" /\ exitCode' = "0" /\ UNCHANGED task_id
    /\ inflight' = NoRequest
    /\ out' = out \cup {"Recent tasks"}
    /\ UNCHANGED <<script, exc, result, status, attempts, phase, histVars,
                   apiVars, logs, readVars, cfgVars, srvVars>>

\* the message is sent: basic_task goes on to the status, task_management ends
BT_MessageSent ==
    /\ script \in {BT, TM} /\ pc = "send_message"
    /\ \E reply \in Replies(MessageBodies) :
        /\ lastReq' = inflight /\ lastReply' = reply
        /\ result' = reply.body
    /\ inflight' = NoRequest
    /\ out' = out \cup {"Message sent"}
    /\ IF script = BT THEN pc' = "input_status" /\ UNCHANGED exitCode
                      ELSE pc' = "done" /\ exitCode' = "0"
    /\ UNCHANGED <<script, exc, task_id, status, attempts, phase, histVars,
                   apiVars, mgmtVars, readVars, cfgVars, srvVars>>

\* the status is returned and printed
BT_StatusReceived ==
    /\ script \in {BT, TM} /\ pc = "get_task_status"
    /\ \E reply \in Replies(StatusBodies) :
        /\ lastReq' = inflight /\ lastReply' = reply
        /\ status' = reply.body
    /\ inflight' = NoRequest /\ pc' = "input_logs"
    /\ out' = out \cup {"Task status"}
    /\ UNCHANGED <<script, exc, exitCode, result, task_id, attempts, phase, histVars,
                   apiVars, mgmtVars, readVars, cfgVars, srvVars>>

\* the logs are returned: basic_task ends, task_management goes on to its message
BT_LogsReceived ==
    /\ script \in {BT, TM} /\ pc = "get_task_logs"
    /\ \E reply \in Replies(LogBodies) :
        /\ lastReq' = inflight /\ lastReply' = reply
        /\ logs' = reply.body
    /\ inflight' = NoRequest
    /\ out' = out \cup {"Conversation logs"}
    /\ IF script = BT THEN pc' = "done" /\ exitCode' = "0"
                      ELSE pc' = "input_send" /\ UNCHANGED exitCode
    /\ UNCHANGED <<script, exc, taskVars, histVars, apiVars, tasks, readVars, cfgVars, srvVars>>

BT_Next ==
    \/ BT_Send \/ BT_Created \/ TM_Listed \/ BT_MessageSent
    \/ BT_StatusReceived \/ BT_LogsReceived

(***************************************************************************)
(* The task server, as the specification describes it: tasks by id, each   *)
(* with a status and, when available, a lastMessage; a pointer to the      *)
(* current task.  The functions create_task, get_task_status and           *)
(* approve_task of test_task_creation.py and test_task_approval.py are     *)
(* called against it in any order.                                         *)
(***************************************************************************)
MaxCalls == 4
MaxProgress == 1

TaskRecord(id, st) ==
    IF st = "in_progress" THEN [id |-> id, status |-> st]
    ELSE [id |-> id, status |-> st, lastMessage |-> "Hi!"]

TaskServer0 == [tasks |-> [t \in TaskIds |-> NoBody], current |-> None, progress |-> 0]

Known(srv) == {t \in TaskIds : srv.tasks[t] # NoBody}

\* the task a request addresses: the id of its path, or the current task
SrvAddressed(srv, req) == IF Len(req.path) = 3 THEN req.path[2] ELSE srv.current

\* POST /tasks: a new task, which becomes the current task
SrvCreateTask(srv, id, st) ==
    [srv EXCEPT !.tasks[id] = TaskRecord(id, st), !.current = id]

\* GET /tasks/{id}/status, GET /tasks/status: the record of the addressed task
SrvGetStatus(srv, req) ==
    LET t == SrvAddressed(srv, req)
    IN  IF t \in Known(srv) THEN OkReply(srv.tasks[t]) ELSE ErrorReply

\* POST /tasks/{id}/respond, POST /tasks/respond: a task awaiting approval resumes
SrvCanRespond(srv, req) ==
    LET t == SrvAddressed(srv, req)
    IN  t \in Known(srv) /\ srv.tasks[t].status = "needs_approval"
SrvRespond(srv, req) ==
    [srv EXCEPT !.tasks[SrvAddressed(srv, req)] = TaskRecord(SrvAddressed(srv, req), "in_progress")]

\* the server works on a task: its status moves on
SrvProgress(srv, t, st) ==
    [srv EXCEPT !.tasks[t] = TaskRecord(t, st), !.progress = srv.progress + 1]

TC_GS == "test_task_creation.get_task_status"
TA_GS == "test_task_approval.get_task_status"

\* the task a call of get_task_status / approve_task is meant for
GS_Target(arg) == IF arg = None THEN server.current ELSE arg

\* the caller starts
GS_Start ==
    /\ script \in {TC_GS, TA_GS} /\ pc = "start"
    /\ pc' = "idle"
    /\ UNCHANGED <<script, exc, exitCode, inflight, lastReq, lastReply, out, taskVars,
                   histVars, notTaskVars>>

\* create_task(...) is called
GS_CallCreate ==
    /\ script \in {TC_GS, TA_GS} /\ pc = "idle" /\ calls < MaxCalls
    /\ inflight' = IF script = TC_GS THEN TC_create_task(TC_message)
                                     ELSE TA_create_task(TA_message, "architect")
    /\ pc' = "create_task" /\ calls' = calls + 1
    /\ UNCHANGED <<script, exc, exitCode, lastReq, lastReply, out, taskVars, histVars,
                   apiVars, mgmtVars, cfgVars, srvVars, reads>>

\* create_task returns response.json()
GS_Created ==
    /\ script \in {TC_GS, TA_GS} /\ pc = "create_task"
    /\ IF Known(server) = TaskIds
       THEN result' = ResponseJson(ErrorReply) /\ UNCHANGED server
       ELSE \E id \in TaskIds \ Known(server),
               st \in {"in_progress", "needs_approval", "completed"} :
              LET srv == SrvCreateTask(server, id, st)
              IN  server' = srv /\ result' = ResponseJson(OkReply(srv.tasks[id]))
    /\ inflight' = NoRequest /\ pc' = "idle"
    /\ UNCHANGED <<script, exc, exitCode, lastReq, lastReply, out, task_id, status,
                   attempts, phase, histVars, apiVars, mgmtVars, cfgVars, readVars>>

\* get_task_status(task_id) is called; test_task_approval's takes None as well
GS_CallStatus ==
    /\ script \in {TC_GS, TA_GS} /\ pc = "idle" /\ calls < MaxCalls
    /\ \E arg \in TaskIds \cup (IF script = TA_GS THEN {None} ELSE {}) :
        /\ task_id' = arg
        /\ inflight' = IF script = TC_GS THEN TC_get_task_status(arg)
                                         ELSE TA_get_task_status(arg)
    /\ pc' = "get_task_status" /\ calls' = calls + 1
    /\ UNCHANGED <<script, exc, exitCode, lastReq, lastReply, out, result, status,
                   attempts, phase, histVars, apiVars, mgmtVars, cfgVars, srvVars, reads>>

\* get_task_status returns response.json(); the server's state is as it was
GS_StatusReceived ==
    /\ script \in {TC_GS, TA_GS} /\ pc = "get_task_status"
    /\ LET reply == SrvGetStatus(server, inflight)
           t == GS_Target(task_id)
       IN  /\ status' = ResponseJson(reply)
           /\ reads' = IF reply.code \in OkCodes /\ t # None
                       THEN [reads EXCEPT ![t] =
                                [record |-> reply.body,
                                 n |-> IF reads[t] = NoBody THEN 1 ELSE reads[t].n + 1]]
                       ELSE reads
    /\ inflight' = NoRequest /\ pc' = "idle"
    /\ UNCHANGED <<script, exc, exitCode, lastReq, lastReply, out, result, task_id,
                   attempts, phase, histVars, apiVars, mgmtVars, cfgVars, srvVars, calls>>

\* approve_task(task_id) is called
GS_CallApprove ==
    /\ script = TA_GS /\ pc = "idle" /\ calls < MaxCalls
    /\ \E arg \in TaskIds \cup {None} :
        /\ task_id' = arg
        /\ inflight' = TA_approve_task(arg)
    /\ pc' = "approve_task" /\ calls' = calls + 1
    /\ UNCHANGED <<script, exc, exitCode, lastReq, lastReply, out, result, status,
                   attempts, phase, histVars, apiVars, mgmtVars, cfgVars, srvVars, reads>>

\* approve_task returns response.json(); the approved task's record has changed
GS_Approved ==
    /\ script = TA_GS /\ pc = "approve_task"
    /\ IF SrvCanRespond(server, inflight)
       THEN /\ server' = SrvRespond(server, inflight)
            /\ result' = ResponseJson(OkReply([success |-> TRUE]))
            /\ reads' = [reads EXCEPT ![SrvAddressed(server, inflight)] = NoBody]
       ELSE /\ result' = ResponseJson(ErrorReply)
            /\ UNCHANGED <<server, reads>>
    /\ inflight' = NoRequest /\ pc' = "idle"
    /\ UNCHANGED <<script, exc, exitCode, lastReq, lastReply, out, task_id, status,
                   attempts, phase, histVars, apiVars, mgmtVars, cfgVars, calls>>

\* the server works on a task that is in progress; the caller is not involved
GS_Progress ==
    /\ script \in {TC_GS, TA_GS} /\ pc \notin {"start", "returned"}
    /\ server.progress < MaxProgress
    /\ \E t \in Known(server), st \in {"needs_approval", "completed", "error"} :
        /\ server.tasks[t].status = "in_progress"
        /\ server' = SrvProgress(server, t, st)
        /\ reads' = [reads EXCEPT ![t] = NoBody]
    /\ UNCHANGED <<commonVars, taskVars, histVars, apiVars, mgmtVars, cfgVars, calls>>

\* the caller is done
GS_Return ==
    /\ script \in {TC_GS, TA_GS} /\ pc = "idle" /\ calls = MaxCalls
    /\ pc' = "returned"
    /\ UNCHANGED <<script, exc, exitCode, inflight, lastReq, lastReply, out, taskVars,
                   histVars, notTaskVars>>

GS_Next ==
    \/ GS_Start \/ GS_CallCreate \/ GS_Created \/ GS_CallStatus \/ GS_StatusReceived
    \/ GS_CallApprove \/ GS_Approved \/ GS_Progress \/ GS_Return

(***************************************************************************)
(* Specification                                                           *)
(***************************************************************************)
Scripts == {TC, TA, AE, AE_SM, MP, MP_SM, MP_SP, AA, AA_UP, AA_SE,
            MCP_DOCS, MCP_MB, BT, TM, TC_GS, TA_GS}

Init ==
    /\ script \in Scripts
    /\ pc = "start" /\ exc = None /\ exitCode = None
    /\ inflight = NoRequest /\ lastReq = NoRequest /\ lastReply = NoBody
    /\ out = {}
    /\ result = NoBody /\ task_id = None /\ status = NoBody /\ attempts = 0 /\ phase = 1
    /\ checks = 0 /\ sleeps = 0 /\ nInProg = 0 /\ timeouts = 0
    /\ connected = None /\ started = None /\ posted = 0
    /\ tasks = NoBody /\ logs = NoBody
    /\ reads = [t \in TaskIds |-> NoBody] /\ calls = 0
    /\ modes = NoBody /\ current_mode = NoBody
    /\ profiles = NoBody /\ current_profile = NoBody /\ new_profile = None
    /\ settings = NoBody
    /\ mcps = NoBody /\ mcp_id = None /\ details = NoBody /\ details0 = NoBody
    /\ IF script \in {MP, MP_SM, MP_SP}
       THEN server \in {srv \in ModeServers : ModeServerOk(srv)}
       ELSE IF script \in {AA, AA_UP, AA_SE}
       THEN server \in {[flags |-> f] : f \in FlagRecords}
       ELSE IF script \in {MCP_DOCS, MCP_MB}
       THEN server \in {[mcps |-> l] : l \in McpLists}
       ELSE IF script \in {TC_GS, TA_GS}
       THEN server = TaskServer0
       ELSE server = NoBody

Next == TC_Next \/ TA_Next \/ AE_Next \/ MP_Next \/ AA_Next \/ MCP_Next \/ BT_Next
            \/ GS_Next

Spec == Init /\ [][Next]_vars

\* the server answers every request, the operator confirms every prompt and a
\* sleep ends: whatever step is possible is eventually taken
FairSpec == Spec /\ WF_vars(Next)

(***************************************************************************)
(* Claims                                                                  *)
(***************************************************************************)
TC_LastStatus == Get(status, "status")

\* C1: when the server answers "in_progress" N times and then "completed",
\* the polling loop of test_task_creation stops after exactly N+1 status checks
\* and N sleeps (one between consecutive checks, none after the last), sends no
\* request after the first terminal status, and prints no timeout message.
C1_PollStopsAfterNPlusOne ==
    script = TC =>
        /\ TC_LastStatus = "completed" =>
              /\ checks = nInProg + 1
              /\ sleeps = nInProg
              /\ nInProg <= 119
              /\ timeouts = 0
              /\ "Timeout waiting for task completion" \notin out
        /\ TC_LastStatus \in {"completed", "needs_input", "needs_approval", "error"} =>
              /\ pc = "done"
              /\ inflight = NoRequest
              /\ checks = nInProg + 1
        /\ pc = "get_task_status" => sleeps + 1 = checks
        /\ pc = "sleep" => sleeps = checks

\* the longest run the loop allows: 119 times "in_progress", then "completed"
C1_Witness ==
    /\ script = TC /\ pc = "done"
    /\ TC_LastStatus = "completed"
    /\ nInProg = 119 /\ checks = 120 /\ sleeps = 119

\* C2: the polling loop makes at most 120 status checks; when each of the first
\* 120 replies carries a status outside {completed, needs_input, needs_approval,
\* error} the script reports the timeout exactly once, makes no 121st check,
\* raises nothing and prints "Test complete!"; the timeout is reported in no
\* other case.
C2_TimeoutAfter120 ==
    script = TC =>
        /\ checks <= 120
        /\ timeouts <= 1
        /\ nInProg = 120 =>
              /\ checks = 120
              /\ pc \in {"sleep", "done"}
              /\ exc = None
              /\ pc = "sleep" => attempts = 119 /\ timeouts = 0 /\ ENABLED TC_Slept
              /\ pc = "done" =>
                    /\ timeouts = 1
                    /\ exitCode = "0"
                    /\ inflight = NoRequest
                    /\ {"Timeout waiting for task completion", "Test complete!"} \subseteq out
        /\ timeouts = 1 => nInProg = 120 /\ checks = 120 /\ TC_LastStatus = "in_progress"
        /\ ("Timeout waiting for task completion" \in out) = (timeouts = 1)

C2_Witness ==
    /\ script = TC /\ pc = "done" /\ exc = None
    /\ nInProg = 120 /\ checks = 120 /\ timeouts = 1
    /\ "Test complete!" \in out

\* C3: a status request is issued only when the creation response contains an
\* id and the status "in_progress"; a response without id is reported as a
\* failed creation, a response with another status ends the script at once, in
\* both cases with no status request and with "Test complete!".
C3_PollOnlyWhenInProgress ==
    (script = TC /\ result # NoBody) =>
        /\ (checks > 0 \/ pc \in {"get_task_status", "sleep"}) =>
              "id" \in DOMAIN result /\ Get(result, "status") = "in_progress"
        /\ "id" \notin DOMAIN result =>
              /\ checks = 0 /\ pc = "done" /\ exc = None /\ exitCode = "0"
              /\ inflight = NoRequest /\ task_id = None
              /\ {"Failed to create task", "Test complete!"} \subseteq out
        /\ ("id" \in DOMAIN result /\ Get(result, "status") \notin {None, "in_progress"}) =>
              /\ checks = 0 /\ pc = "done" /\ exc = None /\ exitCode = "0"
              /\ inflight = NoRequest
              /\ "Failed to create task" \notin out
              /\ "Test complete!" \in out

C3_Witness ==
    /\ script = TC /\ pc = "done"
    /\ "id" \notin DOMAIN result /\ result = ErrorBody
    /\ checks = 0 /\ "Failed to create task" \in out

Ended == pc \in {"done", "returned", "raised"}
LastSegment(req) == req.path[Len(req.path)]
Addressing(req) == SubSeq(req.path, 1, Len(req.path) - 1)
IsRespond(req) == req # NoRequest /\ req.method = "POST" /\ LastSegment(req) = "respond"

\* C4: in test_task_approval every POST to a respond endpoint carries "approve",
\* directly follows a status check that answered "needs_approval", and uses that
\* check's addressing: /tasks/{id}/... with the id creation returned in the
\* first half of main, /tasks/... (current task) in the second half.
C4_ApproveOnlyAfterNeedsApproval ==
    script = TA =>
        /\ IsRespond(inflight) =>
              /\ inflight.payload = [response |-> "approve"]
              /\ lastReq # NoRequest
              /\ lastReq.method = "GET" /\ LastSegment(lastReq) = "status"
              /\ Get(lastReply.body, "status") = "needs_approval"
              /\ Addressing(inflight) = Addressing(lastReq)
              /\ (phase = 1 /\ task_id # None) =>
                    /\ inflight.path = <<"tasks", task_id, "respond">>
                    /\ lastReq.path = <<"tasks", task_id, "status">>
              /\ phase = 2 =>
                    /\ inflight.path = <<"tasks", "respond">>
                    /\ lastReq.path = <<"tasks", "status">>
        /\ (phase = 1 /\ lastReq # NoRequest /\ lastReq.path = <<"tasks">>) =>
              task_id = Get(lastReply.body, "id")
        /\ pc \in {"input_approve", "approve_task"} =>
              Get(status, "status") = "needs_approval"

C4_Witness ==
    /\ script = TA /\ phase = 1 /\ task_id = "t2"
    /\ pc = "approve_task"
    /\ inflight.path = <<"tasks", "t2", "respond">>
    /\ lastReply.body.status = "needs_approval"

\* C5 as stated: every example script issues a bounded number of status
\* requests and eventually terminates, whatever statuses the server returns
\* and with the operator confirming every prompt.
C5_EveryScriptTerminates == <>Ended

\* C5 as the code has it: the polling loop of test_task_creation is the only
\* bounded one (at most 120 status requests) and every script but
\* test_task_approval terminates; test_task_approval leaves each of its two
\* loops only on "completed" or "error".
C5_OnlyCreationPollBounded ==
    /\ [](script # TA => checks <= 120)
    /\ (script # TA) ~> Ended
    /\ [](script = TA /\ pc = "input_create" /\ phase = 2 =>
              Get(status, "status") \in {"completed", "error"})
    /\ [](script = TA /\ Ended =>
              /\ pc = "done" /\ phase = 2
              /\ Get(status, "status") \in {"completed", "error"})

C5_Witness ==
    /\ script = TC /\ Ended /\ checks = 120 /\ attempts = 120
    /\ Get(status, "status") = "in_progress"

\* C6: api_example.main probes GET /api/instructions before anything else; a
\* probe that ends in an exception makes the script exit with status 1 without
\* any POST /api/tasks; a probe answered by any HTTP response, whatever its
\* status code, is followed by exactly one POST /api/tasks.
C6_ProbeGatesTaskCreation ==
    script = AE =>
        /\ posted <= 1
        /\ pc = "test_connection" =>
              inflight = AE_ProbeRequest /\ lastReq = NoRequest /\ posted = 0
        /\ (lastReq = AE_ProbeRequest /\ "exception" \in DOMAIN lastReply) =>
              /\ connected = "False"
              /\ pc = "done" /\ exitCode = "1"
              /\ inflight = NoRequest /\ posted = 0 /\ started = None
        /\ (lastReq = AE_ProbeRequest /\ "code" \in DOMAIN lastReply) =>
              /\ connected = "True"
              /\ pc = "start_new_task"
              /\ inflight = AE_TaskRequest("Hello!") /\ posted = 1
        /\ connected = "False" => posted = 0 /\ exitCode = "1" /\ lastReq = AE_ProbeRequest
        /\ (connected = "True" /\ Ended) => posted = 1 /\ lastReq = AE_TaskRequest("Hello!")

\* the probe is answered 500 and the script goes on to POST /api/tasks
C6_Witness ==
    /\ script = AE /\ pc = "start_new_task"
    /\ lastReq = AE_ProbeRequest /\ lastReply = [code |-> 500, body |-> NoBody]
    /\ posted = 1

AE_HttpErrorAnswered ==
    /\ script \in {AE, AE_SM} /\ Ended
    /\ lastReq # NoRequest /\ lastReq.method = "POST"
    /\ "code" \in DOMAIN lastReply /\ RaisesForStatus(lastReply.code)

AE_SuccessMessages ==
    {"Successfully started new task", "Task started successfully!", "Successfully sent message"}

\* C7 as stated: an HTTP error status on POST /api/tasks or POST /api/messages
\* is propagated by raising and ends the example in a failure outcome, and the
\* task is never reported as started, the message never as sent.
C7_HttpErrorPropagates ==
    AE_HttpErrorAnswered =>
        /\ pc = "raised" \/ exitCode = "1"
        /\ out \cap AE_SuccessMessages = {}

\* C7 as the code has it: the HTTPError of raise_for_status is caught inside
\* start_new_task / send_message, which print the error and return False;
\* nothing is raised to the caller, main ends normally with exit status 0, and
\* no success message is printed.
C7_HttpErrorReturnsFalse ==
    AE_HttpErrorAnswered =>
        /\ started = "False"
        /\ exc = None /\ pc # "raised"
        /\ out \cap AE_SuccessMessages = {}
        /\ script = AE => pc = "done" /\ exitCode = "0" /\ "Error starting task" \in out
        /\ script = AE_SM => pc = "returned" /\ "Error sending message" \in out

C7_Witness ==
    /\ script = AE /\ pc = "done" /\ exitCode = "0"
    /\ lastReq = AE_TaskRequest("Hello!") /\ lastReply = [code |-> 404, body |-> NoBody]
    /\ started = "False"

SwitchModeOk == {[mode |-> m] : m \in ModeSlugs}
SwitchProfileOk == {[name |-> n] : n \in ProfileNames}

\* C8: switch_mode / switch_profile with a name the server does not list: the
\* server answers with an error and keeps its current mode / profile, and the
\* client hands that error body to its caller, an outcome no successful switch
\* produces; with a listed name the server adopts it and confirms it.
C8_UnknownNameIsError ==
    [][ /\ (script \in {MP, MP_SM} /\ pc = "switch_mode" /\ pc' # pc) =>
              IF [slug |-> inflight.payload.mode] \in Range(server.modes)
              THEN /\ server'.mode = inflight.payload.mode
                   /\ result' = [mode |-> inflight.payload.mode]
                   /\ result' \in SwitchModeOk
              ELSE /\ server' = server
                   /\ lastReply'.code >= 400
                   /\ result' = lastReply'.body
                   /\ "error" \in DOMAIN result'
                   /\ result' \notin SwitchModeOk
                   /\ exc' = None
        /\ (script \in {MP, MP_SP} /\ pc = "switch_profile" /\ pc' # pc) =>
              IF [name |-> inflight.payload.name] \in Range(server.profiles)
              THEN /\ server'.profile = inflight.payload.name
                   /\ result' = [name |-> inflight.payload.name]
                   /\ result' \in SwitchProfileOk
              ELSE /\ server' = server
                   /\ lastReply'.code >= 400
                   /\ result' = lastReply'.body
                   /\ "error" \in DOMAIN result'
                   /\ result' \notin SwitchProfileOk
                   /\ exc' = None
      ]_vars

\* main has asked for "architect", which the server does not list
C8_Witness ==
    /\ script = MP /\ pc = "input_list_profiles"
    /\ [slug |-> "architect"] \notin Range(server.modes)
    /\ lastReq = MP_switch_mode_request("architect")
    /\ lastReply.code = 404 /\ result = ErrorBody
    /\ server.mode = current_mode.slug

\* C9: an update of the auto-approve settings is merged: the flags it names
\* take the values sent, the others keep theirs, and the client returns exactly
\* the record the server produced; set_auto_approve_enabled changes the master
\* flag alone.  After auto_approve.main the master switch is off and every
\* other flag has the value main sent in its update.
C9_UpdateMergesAndEchoes ==
    /\ [][ /\ (script \in {AA, AA_UP} /\ pc = "update_settings" /\ pc' # pc) =>
                 /\ \A k \in Flags :
                       server'.flags[k] = IF k \in DOMAIN inflight.payload
                                          THEN inflight.payload[k]
                                          ELSE server.flags[k]
                 /\ result' = server'.flags
                 /\ result' = lastReply'.body
           /\ (script \in {AA, AA_SE} /\ pc = "set_enabled" /\ pc' # pc) =>
                 /\ server'.flags["autoApprovalEnabled"] = inflight.payload.enabled
                 /\ \A k \in Flags \ {"autoApprovalEnabled"} :
                       server'.flags[k] = server.flags[k]
         ]_vars
    /\ [](script = AA /\ pc = "done" =>
             /\ settings = server.flags
             /\ settings["autoApprovalEnabled"] = FALSE
             /\ settings["alwaysAllowReadOnly"] = TRUE
             /\ settings["alwaysAllowWrite"] = FALSE
             /\ settings["alwaysAllowExecute"] = FALSE
             /\ settings["alwaysAllowBrowser"] = TRUE
             /\ settings["alwaysAllowMcp"] = FALSE
             /\ settings["alwaysApproveResubmit"] = TRUE)

\* a direct call updated one flag of a record whose other flags are all on
C9_Witness ==
    /\ script = AA_UP /\ pc = "returned"
    /\ lastReq.payload = [alwaysAllowWrite |-> FALSE]
    /\ result = [k \in Flags |-> k # "alwaysAllowWrite"]
    /\ server.flags = result

\* list_mcps has returned
MCP_Ran == script \in {MCP_DOCS, MCP_MB} /\ pc \notin {"start", "list_mcps"}
IdAddressed(req) == req # NoRequest /\ Len(req.path) >= 2 /\ req.path[1] = "mcps"

\* the four id-addressed requests go to the first listed MCP, in the order
\* details, disable, enable, details; an empty list ends the script at once
MCP_TargetsFirst ==
    /\ (mcps # <<>> /\ pc = "get_details_1") =>
          inflight.method = "GET" /\ inflight.path = <<"mcps", mcps[1].id>>
    /\ (mcps # <<>> /\ pc = "disable") =>
          /\ inflight.method = "POST" /\ inflight.path = <<"mcps", mcps[1].id, "status">>
          /\ inflight.payload = [enabled |-> FALSE]
    /\ (mcps # <<>> /\ pc = "enable") =>
          /\ inflight.method = "POST" /\ inflight.path = <<"mcps", mcps[1].id, "status">>
          /\ inflight.payload = [enabled |-> TRUE]
    /\ (mcps # <<>> /\ pc = "get_details_2") =>
          inflight.method = "GET" /\ inflight.path = <<"mcps", mcps[1].id>>
    /\ IdAddressed(inflight) =>
          pc \in {"get_details_1", "disable", "enable", "get_details_2"}
    /\ mcps = <<>> =>
          /\ pc = "done" /\ inflight = NoRequest
          /\ lastReq.path = <<"mcps">> /\ mcp_id = None /\ details0 = NoBody

\* C10 as stated: for every MCP list and every initial enabled/disabled state
\* the final details fetch reports enabled=true and equals the record fetched
\* before the disable, every request goes to the first listed id, and no other
\* MCP changes.
C10_RoundTripRestores ==
    MCP_Ran =>
        /\ MCP_TargetsFirst
        /\ (mcps # <<>> /\ pc = "done") =>
              /\ details.enabled = TRUE
              /\ details = details0
              /\ \A i \in 2..Len(mcps) : server.mcps[i] = mcps[i]

\* C10 as the code has it: main re-enables without looking at the first
\* record: the final details fetch reports enabled=true and is the pre-disable
\* record with enabled set to true, so it equals that record exactly when the
\* MCP was enabled to begin with; the rest of the claim holds.
C10_RoundTripEnables ==
    MCP_Ran =>
        /\ MCP_TargetsFirst
        /\ (mcps # <<>> /\ pc = "done") =>
              /\ details.enabled = TRUE
              /\ details.id = mcps[1].id
              /\ details = [details0 EXCEPT !.enabled = TRUE]
              /\ (details = details0) = (mcps[1].enabled = TRUE)
              /\ details0 = mcps[1]
              /\ server.mcps[1] = details
              /\ \A i \in 2..Len(mcps) : server.mcps[i] = mcps[i]

\* the first of two MCPs was disabled at the start and ends enabled
C10_Witness ==
    /\ script = MCP_DOCS /\ pc = "done"
    /\ Len(mcps) = 2
    /\ mcps[1].enabled = FALSE /\ details0.enabled = FALSE
    /\ details.enabled = TRUE /\ server.mcps[2] = mcps[2]

\* C11: a status read changes no server state, and a read of a task (by id or
\* as the current task) that was read before and has since seen no respond and
\* no server-side progress returns the same record as that preceding read.
C11_StatusReadsIdempotent ==
    [][(script \in {TC_GS, TA_GS} /\ pc = "get_task_status" /\ pc' = "idle") =>
          LET t == GS_Target(task_id)
          IN  /\ server' = server
              /\ (t # None /\ reads[t] # NoBody) => status' = reads[t].record]_vars

C11_Witness ==
    /\ script \in {TC_GS, TA_GS} /\ pc = "idle"
    /\ \E t \in TaskIds :
        /\ reads[t] # NoBody /\ reads[t].n >= 2
        /\ status = reads[t].record /\ status = server.tasks[t]
        /\ "lastMessage" \in DOMAIN status

\* where a script is blocked in a request, in time.sleep, in input()
RequestPcs ==
    {"create_task", "get_task_status", "approve_task", "test_connection",
     "start_new_task", "send_message", "list_modes", "get_current_mode", "switch_mode",
     "list_profiles", "get_current_profile", "switch_profile", "get_settings_1",
     "get_settings_2", "get_settings_3", "update_settings", "set_enabled", "list_mcps",
     "get_details_1", "get_details_2", "disable", "enable", "list_tasks", "get_task_logs"}
SleepPcs == {"sleep"}
InputPcs ==
    {"input_create", "input_status", "input_approve", "input_current_mode",
     "input_switch_mode", "input_list_profiles", "input_current_profile",
     "input_switch_profile", "input_update", "input_verify", "input_disable",
     "input_final", "input_details", "input_enable", "input_send", "input_logs"}

\* a step in which a request goes out
Sends == inflight' # NoRequest /\ (inflight' # inflight \/ pc' # pc)

\* the step in which the outstanding request is answered (or fails)
Answered == inflight # NoRequest /\ pc \in RequestPcs /\ lastReq' = inflight

\* C12: every script issues one blocking request at a time: a request goes out
\* only when none is outstanding or right as the outstanding one is answered,
\* the script is blocked in a request exactly while one is outstanding, and
\* otherwise it is at its start, at its end, between two calls, in the sleep
\* between two polls (test_task_creation only) or in an operator-confirmation
\* pause.
C12_OneRequestAtATime ==
    /\ [][Sends => (inflight = NoRequest \/ Answered) /\ pc' \in RequestPcs]_vars
    /\ []((inflight # NoRequest) = (pc \in RequestPcs))
    /\ [](pc \notin RequestPcs =>
             \/ pc \in {"start", "idle"} \/ Ended
             \/ pc \in SleepPcs /\ script = TC
             \/ pc \in InputPcs)

\* test_task_approval waits for a status whose request went out after the
\* answer to the task creation had come in
C12_Witness ==
    /\ script = TA /\ pc = "get_task_status"
    /\ inflight = TA_get_task_status(TA_Arg)
    /\ lastReq = TA_create_task(TA_message, "architect")
    /\ lastReply # NoBody /\ result = lastReply.body

\* C13: mode_and_profile.main requests a profile switch only when more than one
\* profile is listed; the target is then the first listed name that differs from
\* the current profile's name, a member of the list and never the current
\* profile; and for every list with more than one entry the selection yields a
\* target and the script completes without an unhandled error.
C13_SelectionAlwaysYields ==
    /\ (script = MP /\ pc = "switch_profile") =>
          /\ MP_HasSeveral(profiles)
          /\ new_profile = Head(MP_OtherNames(profiles, current_profile))
          /\ [name |-> new_profile] \in Range(profiles)
          /\ new_profile # current_profile.name
          /\ inflight = MP_switch_profile_request(new_profile)
    /\ (script = MP /\ Ended) =>
          /\ pc = "done" /\ exc = None
          /\ MP_HasSeveral(profiles) = (new_profile # None)

====
